---- MODULE Spec2Model ----
\* Model of jedisct1/rust-arc-cache (src/src/lib.rs): ArcCache<K, V, S>, an
\* Adaptive Replacement Cache built from four xlru_cache::LruCache lists.
EXTENDS Integers, Sequences, FiniteSets, TLC

\* ------------------------------------------------------------------ bounds
\* Largest capacity handed to ArcCache::new.
MaxCapacity == 2
\* Keys are 1..NumKeys.
NumKeys == 4
\* Calls are explored while inserted + evicted + removed <= MaxCount.
MaxCount == 3

Keys == 1..NumKeys
\* A key that is looked up and removed but never inserted ("testkey-nx").
NeverInserted == NumKeys + 1
LookupKeys == Keys \cup {NeverInserted}
\* The cache stores values and hands them back without ever inspecting one:
\* two distinct values tell the value written last from any other value.
Vals == {"v1", "v2"}
\* The value type () of the two ghost lists (LruCache<K, (), S>).
Unit == <<>>
\* Option<T>: None is the empty sequence, Some(x) is <<x>>.
None == <<>>
Some(x) == <<x>>

\* ------------------------------------------------------------------ state
VARIABLES
    recent_set,        \* LruCache<K, V>: sequence of [k, v], least recently used first
    recent_evicted,    \* LruCache<K, ()>
    frequent_set,      \* LruCache<K, V>
    frequent_evicted,  \* LruCache<K, ()>
    capacity,
    p,
    inserted,
    evicted,
    removed,
    pc,                \* test_arc: the number of its calls made so far
    test,              \* test_arc: the keys and values it runs with
    written            \* per key, the value of the most recent insert

vars == <<recent_set, recent_evicted, frequent_set, frequent_evicted,
          capacity, p, inserted, evicted, removed, pc, test, written>>

\* --------------------------------------------- the LRU primitive (xlru_cache)
\* An LruCache is a sequence of entries [k |-> key, v |-> value]; index 1 is
\* the least recently used entry, the last index the most recently used one.

LruLen(c) == Len(c)

LruKeys(c) == {c[i].k : i \in 1..Len(c)}

\* Membership alone, as a fact about the list.
LruHas(c, key) == key \in LruKeys(c)

LruWithout(c, key) == SelectSeq(c, LAMBDA e : e.k # key)

LruEntry(c, key) == CHOOSE e \in {c[i] : i \in 1..Len(c)} : e.k = key

\* get_mut: a hit makes the entry the most recently used one.
LruGetMut(c, key) ==
    IF LruHas(c, key)
    THEN Append(LruWithout(c, key), LruEntry(c, key))
    ELSE c

\* contains_key takes &mut self: a hit is an access, and makes the entry the
\* most recently used one (test_arc: after contains_key("testkey3"),
\* contains_key("testkey2") the ghost hit on "testkey" evicts "testkey3").
LruContainsKey(c, key) == LruGetMut(c, key)

\* peek_mut: the value stored under key, recency order untouched.
LruPeek(c, key) ==
    IF LruHas(c, key) THEN Some(LruEntry(c, key).v) ELSE None

\* insert: inserts or overwrites, makes the entry the most recently used one,
\* and drops the least recently used entry when the list outgrows its own
\* capacity.
LruInsert(c, key, value, cap) ==
    LET d == Append(LruWithout(c, key), [k |-> key, v |-> value])
    IN  IF Len(d) > cap THEN Tail(d) ELSE d

\* remove: the list without key (the removed value is LruPeek(c, key)).
LruRemove(c, key) == LruWithout(c, key)

\* remove_lru: the list without its least recently used entry.
LruRemoveLru(c) == IF Len(c) = 0 THEN c ELSE Tail(c)

LruClear(c) == <<>>

\* iter: entries from least to most recently used.
LruIter(c) == c

\* ------------------------------------------------------------ the ArcCache
\* The fields of the struct as one record, so that each method is a function
\* from the cache before the call to the cache after it and the result.
Self ==
    [recent_set |-> recent_set, recent_evicted |-> recent_evicted,
     frequent_set |-> frequent_set, frequent_evicted |-> frequent_evicted,
     capacity |-> capacity, p |-> p,
     inserted |-> inserted, evicted |-> evicted, removed |-> removed]

\* ArcCache::new / with_hasher, for a non-zero capacity.
New(cap) ==
    [recent_set |-> <<>>, recent_evicted |-> <<>>,
     frequent_set |-> <<>>, frequent_evicted |-> <<>>,
     capacity |-> cap, p |-> 0,
     inserted |-> 0, evicted |-> 0, removed |-> 0]

len(s) == LruLen(s.recent_set) + LruLen(s.frequent_set)

is_empty(s) == len(s) = 0

frequent_len(s) == LruLen(s.frequent_set)

recent_len(s) == LruLen(s.recent_set)

\* A membership test that reads the lists without counting as an access.
contains_key_NoRefresh(s, key) ==
    [state |-> s,
     ret |-> LruHas(s.frequent_set, key) \/ LruHas(s.recent_set, key)]

\* contains_key that also answers true for a key held by a ghost list.
contains_key_CountsGhosts(s, key) ==
    IF LruHas(s.frequent_set, key)
    THEN [state |-> [s EXCEPT !.frequent_set = LruContainsKey(@, key)],
          ret |-> TRUE]
    ELSE [state |-> [s EXCEPT !.recent_set = LruContainsKey(@, key)],
          ret |-> \/ LruHas(s.recent_set, key)
                  \/ LruHas(s.recent_evicted, key)
                  \/ LruHas(s.frequent_evicted, key)]

\* pub fn contains_key(&mut self, key: &Q) -> bool
\* (|| does not evaluate recent_set.contains_key after a hit in frequent_set)
contains_key(s, key) ==
    IF LruHas(s.frequent_set, key)
    THEN [state |-> [s EXCEPT !.frequent_set = LruContainsKey(@, key)],
          ret |-> TRUE]
    ELSE [state |-> [s EXCEPT !.recent_set = LruContainsKey(@, key)],
          ret |-> LruHas(s.recent_set, key)]

\* fn replace(&mut self, frequent_evicted_contains_key: bool)
replace(s, frequent_evicted_contains_key) ==
    LET recent_set_len == LruLen(s.recent_set)
    IN  IF recent_set_len > 0
           /\ (recent_set_len > s.p
               \/ (recent_set_len = s.p /\ frequent_evicted_contains_key))
        THEN [s EXCEPT
                !.recent_set = LruRemoveLru(@),
                !.recent_evicted =
                    LruInsert(@, s.recent_set[1].k, Unit, s.capacity)]
        ELSE IF LruLen(s.frequent_set) > 0
        THEN [s EXCEPT
                !.frequent_set = LruRemoveLru(@),
                !.frequent_evicted =
                    LruInsert(@, s.frequent_set[1].k, Unit, s.capacity)]
        ELSE s

\* The replace call of insert, made when the live lists are full.
ReplaceIfFull(s, frequent_evicted_contains_key) ==
    IF LruLen(s.recent_set) + LruLen(s.frequent_set) >= s.capacity
    THEN replace(s, frequent_evicted_contains_key)
    ELSE s

\* InsertFrequentGhostHit with p lowered by delta and not clamped at 0.
InsertFrequentGhostHit_Unclamped(s, key, value) ==
    LET recent_evicted_len == LruLen(s.recent_evicted)
        frequent_evicted_len == LruLen(s.frequent_evicted)
        delta == IF recent_evicted_len > frequent_evicted_len
                 THEN recent_evicted_len \div frequent_evicted_len
                 ELSE 1
        s1 == [s EXCEPT !.p = s.p - delta,
                        !.frequent_evicted = LruContainsKey(@, key)]
        s2 == ReplaceIfFull(s1, TRUE)
    IN  [s2 EXCEPT
            !.frequent_evicted = LruRemove(@, key),
            !.frequent_set = LruInsert(@, key, value, s.capacity)]

\* insert, key found in frequent_evicted (lines 100-119).
InsertFrequentGhostHit(s, key, value) ==
    LET recent_evicted_len == LruLen(s.recent_evicted)
        frequent_evicted_len == LruLen(s.frequent_evicted)
        delta == IF recent_evicted_len > frequent_evicted_len
                 THEN recent_evicted_len \div frequent_evicted_len
                 ELSE 1
        s1 == [s EXCEPT !.p = IF delta < s.p THEN s.p - delta ELSE 0,
                        !.frequent_evicted = LruContainsKey(@, key)]
        s2 == ReplaceIfFull(s1, TRUE)
    IN  [s2 EXCEPT
            !.frequent_evicted = LruRemove(@, key),
            !.frequent_set = LruInsert(@, key, value, s.capacity)]

\* InsertRecentGhostHit that always steps p by 1.
InsertRecentGhostHit_UnitDelta(s, key, value) ==
    LET s1 == [s EXCEPT !.p = IF 1 <= s.capacity - s.p
                              THEN s.p + 1
                              ELSE s.capacity,
                        !.recent_evicted = LruContainsKey(@, key)]
        s2 == ReplaceIfFull(s1, FALSE)
    IN  [s2 EXCEPT
            !.recent_evicted = LruRemove(@, key),
            !.frequent_set = LruInsert(@, key, value, s.capacity)]

\* insert, key found in recent_evicted (lines 120-139).
InsertRecentGhostHit(s, key, value) ==
    LET recent_evicted_len == LruLen(s.recent_evicted)
        frequent_evicted_len == LruLen(s.frequent_evicted)
        delta == IF frequent_evicted_len > recent_evicted_len
                 THEN frequent_evicted_len \div recent_evicted_len
                 ELSE 1
        s1 == [s EXCEPT !.p = IF delta <= s.capacity - s.p
                              THEN s.p + delta
                              ELSE s.capacity,
                        !.recent_evicted = LruContainsKey(@, key)]
        s2 == ReplaceIfFull(s1, FALSE)
    IN  [s2 EXCEPT
            !.recent_evicted = LruRemove(@, key),
            !.frequent_set = LruInsert(@, key, value, s.capacity)]

\* InsertColdMiss with the new key put into recent_set before replace runs.
InsertColdMiss_ReplaceLast(s, key, value) ==
    LET s0 == [s EXCEPT !.recent_set = LruInsert(@, key, value, s.capacity)]
        s1 == ReplaceIfFull(s0, FALSE)
        s2 == IF LruLen(s1.recent_evicted) > s1.capacity - s1.p
              THEN [s1 EXCEPT !.recent_evicted = LruRemoveLru(@),
                              !.evicted = @ + 1]
              ELSE s1
        s3 == IF LruLen(s2.frequent_evicted) > s2.p
              THEN [s2 EXCEPT !.frequent_evicted = LruRemoveLru(@),
                              !.evicted = @ + 1]
              ELSE s2
    IN  [s3 EXCEPT !.inserted = @ + 1]

\* InsertColdMiss that never trims a ghost list.
InsertColdMiss_NoTrim(s, key, value) ==
    LET s1 == ReplaceIfFull(s, FALSE)
    IN  [s1 EXCEPT
            !.recent_set = LruInsert(@, key, value, s.capacity),
            !.inserted = @ + 1]

\* InsertColdMiss that trims each ghost list until it is within its bound.
InsertColdMiss_TrimsToBound(s, key, value) ==
    LET s1 == ReplaceIfFull(s, FALSE)
        s2 == IF LruLen(s1.recent_evicted) > s1.capacity - s1.p
              THEN [s1 EXCEPT
                      !.recent_evicted =
                          SubSeq(@, Len(@) - (s1.capacity - s1.p) + 1, Len(@)),
                      !.evicted = @ + LruLen(s1.recent_evicted)
                                    - (s1.capacity - s1.p)]
              ELSE s1
        s3 == IF LruLen(s2.frequent_evicted) > s2.p
              THEN [s2 EXCEPT
                      !.frequent_evicted =
                          SubSeq(@, Len(@) - s2.p + 1, Len(@)),
                      !.evicted = @ + LruLen(s2.frequent_evicted) - s2.p]
              ELSE s2
    IN  [s3 EXCEPT
            !.recent_set = LruInsert(@, key, value, s.capacity),
            !.inserted = @ + 1]

\* insert, key in none of the four lists (lines 140-153).
InsertColdMiss(s, key, value) ==
    LET s1 == ReplaceIfFull(s, FALSE)
        s2 == IF LruLen(s1.recent_evicted) > s1.capacity - s1.p
              THEN [s1 EXCEPT !.recent_evicted = LruRemoveLru(@),
                              !.evicted = @ + 1]
              ELSE s1
        s3 == IF LruLen(s2.frequent_evicted) > s2.p
              THEN [s2 EXCEPT !.frequent_evicted = LruRemoveLru(@),
                              !.evicted = @ + 1]
              ELSE s2
    IN  [s3 EXCEPT
            !.recent_set = LruInsert(@, key, value, s.capacity),
            !.inserted = @ + 1]

\* insert_faults of an insert whose delta is the quotient of the other
\* list's length by this list's, taken without comparing the lengths first.
insert_faults_DividesByOtherList(s, key) ==
    IF LruHas(s.frequent_set, key) \/ LruHas(s.recent_set, key)
    THEN {}
    ELSE IF LruHas(s.frequent_evicted, key)
    THEN {"division by zero" : f \in
             {f \in {1} : LruLen(s.recent_evicted) = 0}}
    ELSE IF LruHas(s.recent_evicted, key)
    THEN {"division by zero" : f \in
             {f \in {1} : LruLen(s.frequent_evicted) = 0}}
    ELSE {}

\* The arithmetic of insert that panics instead of yielding a number: a
\* division by a length of 0 (lines 104, 124) and a usize subtraction below 0
\* (lines 109, 128, 143). The result is the set of those that insert(key, _)
\* would hit in s.
insert_faults(s, key) ==
    LET recent_evicted_len == LruLen(s.recent_evicted)
        frequent_evicted_len == LruLen(s.frequent_evicted)
    IN  IF LruHas(s.frequent_set, key) \/ LruHas(s.recent_set, key)
        THEN {}
        ELSE IF LruHas(s.frequent_evicted, key)
        THEN LET divides == recent_evicted_len > frequent_evicted_len
                 delta == IF divides /\ frequent_evicted_len # 0
                          THEN recent_evicted_len \div frequent_evicted_len
                          ELSE 1
             IN  {"division by zero" : f \in
                     {f \in {1} : divides /\ frequent_evicted_len = 0}}
                 \cup {"p - delta underflows" : f \in
                     {f \in {1} : delta < s.p /\ s.p - delta < 0}}
        ELSE IF LruHas(s.recent_evicted, key)
        THEN LET divides == frequent_evicted_len > recent_evicted_len
             IN  {"division by zero" : f \in
                     {f \in {1} : divides /\ recent_evicted_len = 0}}
                 \cup {"capacity - p underflows" : f \in
                     {f \in {1} : s.capacity - s.p < 0}}
        ELSE {"capacity - p underflows" : f \in
                 {f \in {1} : s.capacity - s.p < 0}}

\* insert that reports a ghost hit as a miss (false) and counts it as inserted.
insert_GhostHitIsMiss(s, key, value) ==
    IF LruHas(s.frequent_set, key)
    THEN [state |-> [s EXCEPT
                        !.frequent_set = LruInsert(@, key, value, s.capacity)],
          ret |-> TRUE]
    ELSE IF LruHas(s.recent_set, key)
    THEN [state |-> [s EXCEPT
                        !.recent_set = LruRemove(@, key),
                        !.frequent_set = LruInsert(@, key, value, s.capacity)],
          ret |-> TRUE]
    ELSE IF LruHas(s.frequent_evicted, key)
    THEN [state |-> [InsertFrequentGhostHit(s, key, value)
                        EXCEPT !.inserted = @ + 1],
          ret |-> FALSE]
    ELSE IF LruHas(s.recent_evicted, key)
    THEN [state |-> [InsertRecentGhostHit(s, key, value)
                        EXCEPT !.inserted = @ + 1],
          ret |-> FALSE]
    ELSE [state |-> InsertColdMiss(s, key, value), ret |-> FALSE]

\* insert that, on a live key, promotes the entry and keeps its stored value.
insert_KeepsStoredValue(s, key, value) ==
    IF LruHas(s.frequent_set, key)
    THEN [state |-> [s EXCEPT !.frequent_set = LruGetMut(@, key)],
          ret |-> TRUE]
    ELSE IF LruHas(s.recent_set, key)
    THEN [state |-> [s EXCEPT
                        !.recent_set = LruRemove(@, key),
                        !.frequent_set =
                            LruInsert(@, key, LruPeek(s.recent_set, key)[1],
                                      s.capacity)],
          ret |-> TRUE]
    ELSE IF LruHas(s.frequent_evicted, key)
    THEN [state |-> InsertFrequentGhostHit(s, key, value), ret |-> TRUE]
    ELSE IF LruHas(s.recent_evicted, key)
    THEN [state |-> InsertRecentGhostHit(s, key, value), ret |-> TRUE]
    ELSE [state |-> InsertColdMiss(s, key, value), ret |-> FALSE]

\* pub fn insert(&mut self, key: K, value: V) -> bool
insert(s, key, value) ==
    IF LruHas(s.frequent_set, key)
    THEN [state |-> [s EXCEPT
                        !.frequent_set = LruInsert(@, key, value, s.capacity)],
          ret |-> TRUE]
    ELSE IF LruHas(s.recent_set, key)
    THEN [state |-> [s EXCEPT
                        !.recent_set = LruRemove(@, key),
                        !.frequent_set = LruInsert(@, key, value, s.capacity)],
          ret |-> TRUE]
    ELSE IF LruHas(s.frequent_evicted, key)
    THEN [state |-> InsertFrequentGhostHit(s, key, value), ret |-> TRUE]
    ELSE IF LruHas(s.recent_evicted, key)
    THEN [state |-> InsertRecentGhostHit(s, key, value), ret |-> TRUE]
    ELSE [state |-> InsertColdMiss(s, key, value), ret |-> FALSE]

\* pub fn peek_mut(&mut self, key: &K) -> Option<&mut V>
peek_mut(s, key) ==
    [state |-> s,
     ret |-> IF LruPeek(s.frequent_set, key) # None
             THEN LruPeek(s.frequent_set, key)
             ELSE LruPeek(s.recent_set, key)]

\* get_mut that copies a recent entry into frequent_set and leaves it in
\* recent_set.
get_mut_KeepsRecent(s, key) ==
    LET value == LruPeek(s.recent_set, key)
        s1 == IF value # None
              THEN [s EXCEPT
                      !.frequent_set =
                          LruInsert(@, key, value[1], s.capacity)]
              ELSE s
    IN  [state |-> [s1 EXCEPT !.frequent_set = LruGetMut(@, key)],
         ret |-> LruPeek(s1.frequent_set, key)]

\* pub fn get_mut(&mut self, key: &K) -> Option<&mut V>
get_mut(s, key) ==
    LET value == LruPeek(s.recent_set, key)
        s1 == IF value # None
              THEN [s EXCEPT
                      !.recent_set = LruRemove(@, key),
                      !.frequent_set =
                          LruInsert(@, key, value[1], s.capacity)]
              ELSE s
    IN  [state |-> [s1 EXCEPT !.frequent_set = LruGetMut(@, key)],
         ret |-> LruPeek(s1.frequent_set, key)]

\* remove that leaves the two ghost lists alone.
remove_KeepsGhosts(s, key) ==
    LET removed_frequent == LruPeek(s.frequent_set, key)
        removed_recent == LruPeek(s.recent_set, key)
        s1 == [s EXCEPT
                 !.frequent_set = LruRemove(@, key),
                 !.recent_set = LruRemove(@, key)]
        value == IF removed_frequent # None THEN removed_frequent
                 ELSE removed_recent
    IN  IF value # None
        THEN [state |-> [s1 EXCEPT !.removed = @ + 1], ret |-> value]
        ELSE [state |-> s1, ret |-> None]

\* remove that counts every call that found the key in some list, ghost
\* lists included.
remove_CountsGhosts(s, key) ==
    LET removed_frequent == LruPeek(s.frequent_set, key)
        removed_recent == LruPeek(s.recent_set, key)
        s1 == [s EXCEPT
                 !.frequent_set = LruRemove(@, key),
                 !.recent_set = LruRemove(@, key),
                 !.frequent_evicted = LruRemove(@, key),
                 !.recent_evicted = LruRemove(@, key)]
        value == IF removed_frequent # None THEN removed_frequent
                 ELSE removed_recent
    IN  [state |-> IF s1 # s THEN [s1 EXCEPT !.removed = @ + 1] ELSE s1,
         ret |-> value]

\* pub fn remove(&mut self, key: &K) -> Option<V>
remove(s, key) ==
    LET removed_frequent == LruPeek(s.frequent_set, key)
        removed_recent == LruPeek(s.recent_set, key)
        s1 == [s EXCEPT
                 !.frequent_set = LruRemove(@, key),
                 !.recent_set = LruRemove(@, key),
                 !.frequent_evicted = LruRemove(@, key),
                 !.recent_evicted = LruRemove(@, key)]
        value == IF removed_frequent # None THEN removed_frequent
                 ELSE removed_recent
    IN  IF value # None
        THEN [state |-> [s1 EXCEPT !.removed = @ + 1], ret |-> value]
        ELSE [state |-> s1, ret |-> None]

\* clear that also resets p and the three counters, as a fresh cache.
clear_ResetsStatistics(s) == New(s.capacity)

\* pub fn clear(&mut self)
clear(s) ==
    [s EXCEPT
        !.recent_set = LruClear(@),
        !.recent_evicted = LruClear(@),
        !.frequent_set = LruClear(@),
        !.frequent_evicted = LruClear(@)]

\* A traversal that chains the two lists the other way round.
into_iter_RecentFirst(s) == LruIter(s.recent_set) \o LruIter(s.frequent_set)

\* IntoIterator for &ArcCache: frequent_set.iter().chain(recent_set.iter())
into_iter(s) == LruIter(s.frequent_set) \o LruIter(s.recent_set)

\* ---------------------------------------------------------------- actions
\* The lifetime counters stay within the explored range.
InRange(s) == s.inserted + s.evicted + s.removed <= MaxCount

\* self becomes s.
Assign(s) ==
    /\ recent_set' = s.recent_set
    /\ recent_evicted' = s.recent_evicted
    /\ frequent_set' = s.frequent_set
    /\ frequent_evicted' = s.frequent_evicted
    /\ capacity' = s.capacity
    /\ p' = s.p
    /\ inserted' = s.inserted
    /\ evicted' = s.evicted
    /\ removed' = s.removed

\* A call on the cache, outside test_arc and with no record of the writes.
Store(s) ==
    /\ InRange(s)
    /\ Assign(s)
    /\ UNCHANGED <<pc, test, written>>

\* No key has been inserted yet.
NothingWritten == [key \in Keys |-> "none"]

\* let mut arc = ArcCache::new(cap).unwrap()
Constructed(cap) ==
    /\ recent_set = New(cap).recent_set
    /\ recent_evicted = New(cap).recent_evicted
    /\ frequent_set = New(cap).frequent_set
    /\ frequent_evicted = New(cap).frequent_evicted
    /\ capacity = New(cap).capacity
    /\ p = New(cap).p
    /\ inserted = New(cap).inserted
    /\ evicted = New(cap).evicted
    /\ removed = New(cap).removed

Init ==
    /\ \E cap \in 1..MaxCapacity : Constructed(cap)
    /\ pc = 0
    /\ test = <<>>
    /\ written = NothingWritten

\* A call of insert returns unless its arithmetic panics.
Insert ==
    \E key \in Keys, value \in Vals :
        /\ insert_faults(Self, key) = {}
        /\ Store(insert(Self, key, value).state)

ContainsKey == \E key \in LookupKeys : Store(contains_key(Self, key).state)

PeekMut == \E key \in LookupKeys : Store(peek_mut(Self, key).state)

GetMut == \E key \in LookupKeys : Store(get_mut(Self, key).state)

Remove == \E key \in LookupKeys : Store(remove(Self, key).state)

Clear == Store(clear(Self))

\* for (key, value) in &arc { .. }: the iterator borrows the cache immutably
\* and is consumed to its end.
IntoIter ==
    /\ Len(into_iter(Self)) = len(Self)
    /\ Store(Self)

Next ==
    \/ Insert
    \/ ContainsKey
    \/ PeekMut
    \/ GetMut
    \/ Remove
    \/ Clear
    \/ IntoIter

Spec == Init /\ [][Next]_vars

\* ------------------------------------------------- the calls with a record
\* written[key] is the value of the last insert(key, _) if that insert is the
\* last thing that happened to the key, "gone" if since then the key was
\* removed, cleared or evicted from the live lists, and "none" if the key was
\* never inserted.
Written == [Keys -> Vals \cup {"none", "gone"}]

\* The record after a call that took the cache from s to after; the call
\* was insert(key, value) if key is in Keys.
Recorded(s, after, key, value) ==
    [k \in Keys |->
        IF k = key THEN value
        ELSE IF (LruHas(s.frequent_set, k) \/ LruHas(s.recent_set, k))
                /\ ~(LruHas(after.frequent_set, k)
                     \/ LruHas(after.recent_set, k))
        THEN "gone"
        ELSE written[k]]

HistoryStore(s, key, value) ==
    /\ InRange(s)
    /\ Assign(s)
    /\ written' = Recorded(Self, s, key, value)
    /\ UNCHANGED <<pc, test>>

HistoryInsert ==
    \E key \in Keys, value \in Vals :
        /\ insert_faults(Self, key) = {}
        /\ HistoryStore(insert(Self, key, value).state, key, value)

HistoryContainsKey ==
    \E key \in LookupKeys :
        HistoryStore(contains_key(Self, key).state, NeverInserted, "none")

HistoryPeekMut ==
    \E key \in LookupKeys :
        HistoryStore(peek_mut(Self, key).state, NeverInserted, "none")

HistoryGetMut ==
    \E key \in LookupKeys :
        HistoryStore(get_mut(Self, key).state, NeverInserted, "none")

HistoryRemove ==
    \E key \in LookupKeys :
        HistoryStore(remove(Self, key).state, NeverInserted, "none")

HistoryClear == HistoryStore(clear(Self), NeverInserted, "none")

NextHistory ==
    \/ HistoryInsert
    \/ HistoryContainsKey
    \/ HistoryPeekMut
    \/ HistoryGetMut
    \/ HistoryRemove
    \/ HistoryClear

SpecHistory == Init /\ [][NextHistory]_vars

\* --------------------------------------------------------- a larger cache
\* A quotient of ghost-list lengths above 1 needs three ghost keys beside a
\* full cache: inserts and promotions alone, on a cache of one more slot
\* and two more keys. The caller brings in new keys in increasing order (the
\* code treats all keys alike), so after n cold inserts only keys 1..n+1 are
\* in use.
AdaptCapacity == MaxCapacity + 1

AdaptKeys == 1..(NumKeys + 2)

InitAdapt ==
    /\ Constructed(AdaptCapacity)
    /\ pc = 0
    /\ test = <<>>
    /\ written = NothingWritten

AdaptStore(s) ==
    /\ s.inserted <= NumKeys + 2
    /\ Assign(s)
    /\ UNCHANGED <<pc, test, written>>

AdaptInsert ==
    \E key \in AdaptKeys :
        /\ key <= inserted + 1
        /\ insert_faults(Self, key) = {}
        /\ AdaptStore(insert(Self, key, CHOOSE value \in Vals : TRUE).state)

AdaptGetMut ==
    \E key \in AdaptKeys :
        /\ key <= inserted
        /\ AdaptStore(get_mut(Self, key).state)

NextAdapt ==
    \/ AdaptInsert
    \/ AdaptGetMut

SpecAdapt == InitAdapt /\ [][NextAdapt]_vars

\* ------------------------------------------------------------------ test_arc
\* ArcCache::new(2) of the test.
TestCapacity == 2

\* The keys and values the test may run with: three distinct keys A, B, C
\* ("testkey", "testkey2", "testkey3"), their values, and a key that is
\* never inserted ("testkey-nx").
TestInputs ==
    {t \in [A : Keys, B : Keys, C : Keys, nx : LookupKeys,
            vA : Vals, vB : Vals, vC : Vals] :
        /\ Cardinality({t.A, t.B, t.C}) = 3
        /\ t.nx \notin {t.A, t.B, t.C}}

\* The calls of the test in order; expect is what the surrounding assert!
\* demands of the returned value (contains_key: the bool, get_mut: is_some).
TestScript(t) ==
    << [op |-> "insert", key |-> t.A, value |-> t.vA],
       [op |-> "contains_key", key |-> t.A, expect |-> TRUE],
       [op |-> "insert", key |-> t.B, value |-> t.vB],
       [op |-> "contains_key", key |-> t.B, expect |-> TRUE],
       [op |-> "insert", key |-> t.C, value |-> t.vC],
       [op |-> "contains_key", key |-> t.C, expect |-> TRUE],
       [op |-> "contains_key", key |-> t.B, expect |-> TRUE],
       [op |-> "contains_key", key |-> t.A, expect |-> FALSE],
       [op |-> "insert", key |-> t.A, value |-> t.vA],
       [op |-> "get_mut", key |-> t.A, expect |-> TRUE],
       [op |-> "get_mut", key |-> t.nx, expect |-> FALSE] >>

\* The test has made all its calls and is about to traverse the cache.
TestDone == test # <<>> /\ pc = Len(TestScript(test))

\* The next call of the test, if it has one left.
TestCall == TestScript(test)[pc + 1]

\* The test's call has returned: the cache is s and the test moves on.
TestStore(s) ==
    /\ Assign(s)
    /\ pc' = pc + 1
    /\ UNCHANGED <<test, written>>

InitTest ==
    /\ Constructed(TestCapacity)
    /\ pc = 0
    /\ test \in TestInputs
    /\ written = NothingWritten

TestInsert ==
    /\ ~TestDone
    /\ TestCall.op = "insert"
    /\ insert_faults(Self, TestCall.key) = {}
    /\ TestStore(insert(Self, TestCall.key, TestCall.value).state)

\* assert!(arc.contains_key(..)) / assert!(!arc.contains_key(..)): a failed
\* assertion ends the test.
TestContainsKey ==
    /\ ~TestDone
    /\ TestCall.op = "contains_key"
    /\ contains_key(Self, TestCall.key).ret = TestCall.expect
    /\ TestStore(contains_key(Self, TestCall.key).state)

\* assert!(arc.get_mut(..).is_some()) / assert!(arc.get_mut(..).is_none())
TestGetMut ==
    /\ ~TestDone
    /\ TestCall.op = "get_mut"
    /\ (get_mut(Self, TestCall.key).ret # None) = TestCall.expect
    /\ TestStore(get_mut(Self, TestCall.key).state)

NextTest ==
    \/ TestInsert
    \/ TestContainsKey
    \/ TestGetMut

SpecTest == InitTest /\ [][NextTest]_vars

\* ------------------------------------------------------------------ claims
ListNames == {"recent_set", "frequent_set", "recent_evicted", "frequent_evicted"}

\* The lists a key is in.
ListsHolding(s, key) == {n \in ListNames : LruHas(s[n], key)}

\* No list holds a key twice.
NoDuplicates(c) == \A i, j \in 1..Len(c) : c[i].k = c[j].k => i = j

\* C1: after every call recent_len() + frequent_len() <= capacity, for every
\* capacity >= 1.
C1_SizeBound == recent_len(Self) + frequent_len(Self) <= capacity

\* C2: every key is in at most one of recent_set, frequent_set, recent_evicted
\* and frequent_evicted, and in none of them twice.
C2_MutualExclusion ==
    /\ \A key \in LookupKeys : Cardinality(ListsHolding(Self, key)) <= 1
    /\ NoDuplicates(recent_set) /\ NoDuplicates(frequent_set)
    /\ NoDuplicates(recent_evicted) /\ NoDuplicates(frequent_evicted)

\* A ghost hit moves a key out of recent_evicted into frequent_set while both
\* live lists and a ghost list hold other keys.
C2_Witness ==
    \E key \in Keys, value \in Vals :
        LET t == insert(Self, key, value).state
        IN  /\ LruHas(recent_evicted, key)
            /\ InRange(t)
            /\ ListsHolding(t, key) = {"frequent_set"}
            /\ LruLen(t.recent_set) > 0
            /\ LruLen(t.recent_evicted) + LruLen(t.frequent_evicted) > 0

\* C3: 0 <= p <= capacity in every reachable state.
C3_AdaptationBound == 0 <= p /\ p <= capacity

\* A recent_evicted hit with delta = capacity - p raises p to the capacity.
C3_Witness ==
    \E key \in Keys, value \in Vals :
        /\ LruHas(recent_evicted, key)
        /\ capacity > 1 /\ p = capacity - 1
        /\ InRange(insert(Self, key, value).state)
        /\ insert(Self, key, value).state.p = capacity

\* key is in recent_set or frequent_set.
Live(s, key) == LruHas(s.frequent_set, key) \/ LruHas(s.recent_set, key)

\* The value stored under a live key.
Stored(s, key) ==
    IF LruHas(s.frequent_set, key)
    THEN LruEntry(s.frequent_set, key).v
    ELSE LruEntry(s.recent_set, key).v

\* C4: right after insert(k, v) returns, k is live: contains_key(k) is true and
\* get_mut(k) and peek_mut(k) are present, whichever branch insert took; and
\* get_mut on a key that was never inserted is empty.
C4_InsertedKeyIsLive ==
    /\ \A key \in Keys, value \in Vals :
          LET t == insert(Self, key, value).state
          IN  /\ contains_key(t, key).ret
              /\ get_mut(t, key).ret # None
              /\ peek_mut(t, key).ret # None
    /\ get_mut(Self, NeverInserted).ret = None

\* A cold miss into a full cache (replace runs) and, in the same state, a
\* ghost hit: both leave the inserted key live.
C4_Witness ==
    \E cold, ghost \in Keys, value \in Vals :
        /\ ListsHolding(Self, cold) = {}
        /\ ListsHolding(Self, ghost) \in {{"recent_evicted"}, {"frequent_evicted"}}
        /\ len(Self) >= capacity
        /\ InRange(insert(Self, cold, value).state)
        /\ Live(insert(Self, cold, value).state, cold)
        /\ Live(insert(Self, ghost, value).state, ghost)

\* C5: insert(k, v) returns false exactly when k is in none of the four lists
\* before the call; inserted grows by exactly 1 when it returns false and is
\* unchanged when it returns true.
C5_InsertResult ==
    \A key \in Keys, value \in Vals :
        LET r == insert(Self, key, value)
        IN  /\ (r.ret = FALSE) <=> (ListsHolding(Self, key) = {})
            /\ r.state.inserted = inserted + (IF r.ret THEN 0 ELSE 1)

\* One state with a key in each of a live list, a ghost list and no list:
\* insert answers true, true, false.
C5_Witness ==
    \E a, b, c \in Keys, value \in Vals :
        /\ Live(Self, a)
        /\ ListsHolding(Self, b) \in {{"recent_evicted"}, {"frequent_evicted"}}
        /\ ListsHolding(Self, c) = {}
        /\ insert(Self, a, value).ret
        /\ insert(Self, b, value).ret
        /\ ~insert(Self, c, value).ret
        /\ InRange(insert(Self, c, value).state)

\* C6: remove(k) immediately followed by insert(k, v) is a cold miss for any
\* k (live, ghost or absent): the insert returns false, p is what it was
\* before the remove, k ends in recent_set and not in frequent_set, and
\* inserted grows by 1.
C6_RemovePurgesGhosts ==
    \A key \in Keys, value \in Vals :
        LET a == remove(Self, key).state
            b == insert(a, key, value)
        IN  /\ b.ret = FALSE
            /\ b.state.p = p
            /\ ListsHolding(b.state, key) = {"recent_set"}
            /\ b.state.inserted = inserted + 1

\* The removed key is a ghost whose re-insertion without the remove would
\* have been a ghost hit that moves p.
C6_Witness ==
    \E key \in Keys, value \in Vals :
        /\ ListsHolding(Self, key) \in {{"recent_evicted"}, {"frequent_evicted"}}
        /\ insert(Self, key, value).state.p # p
        /\ InRange(insert(remove(Self, key).state, key, value).state)
        /\ insert(remove(Self, key).state, key, value).state.p = p

\* C7: remove(k) returns the stored value and adds exactly 1 to removed if and
\* only if k was in recent_set or frequent_set; a key held only by a ghost list
\* gives None and leaves removed alone; a key in none of the lists leaves the
\* whole cache as it was. In every case the other keys (with their order and
\* values), p, inserted and evicted are unchanged.
C7_RemoveFrame ==
    \A key \in LookupKeys :
        LET r == remove(Self, key)
        IN  /\ Live(Self, key) =>
                  /\ r.ret = Some(Stored(Self, key))
                  /\ r.state.removed = removed + 1
            /\ ~Live(Self, key) =>
                  /\ r.ret = None
                  /\ r.state.removed = removed
            /\ ListsHolding(Self, key) = {} => r.state = Self
            /\ \A n \in ListNames : r.state[n] = LruWithout(Self[n], key)
            /\ r.state.p = p
            /\ r.state.inserted = inserted
            /\ r.state.evicted = evicted
            /\ r.state.capacity = capacity

\* One state where remove meets a live key with live neighbours, a ghost key
\* and an absent key.
C7_Witness ==
    \E a, b, c \in LookupKeys :
        /\ Live(Self, a) /\ len(Self) > 1
        /\ ListsHolding(Self, b) \in {{"recent_evicted"}, {"frequent_evicted"}}
        /\ ListsHolding(Self, c) = {}
        /\ remove(Self, a).ret # None
        /\ len(remove(Self, a).state) = len(Self) - 1
        /\ remove(Self, b).ret = None
        /\ remove(Self, b).state # Self
        /\ remove(Self, c).state = Self

\* The caches one public call away from s.
Successors(s) ==
    {insert(s, key, value).state : key \in Keys, value \in Vals}
    \cup {contains_key(s, key).state : key \in LookupKeys}
    \cup {peek_mut(s, key).state : key \in LookupKeys}
    \cup {get_mut(s, key).state : key \in LookupKeys}
    \cup {remove(s, key).state : key \in LookupKeys}
    \cup {clear(s)}

\* C8: clear() leaves the four lists empty (len() = 0) and p, inserted, evicted
\* and removed as they were; and no call, clear included, lowers a counter.
C8_ClearKeepsStatistics ==
    /\ LET t == clear(Self)
       IN  /\ \A n \in ListNames : t[n] = <<>>
           /\ len(t) = 0 /\ is_empty(t)
           /\ t.p = p
           /\ t.inserted = inserted
           /\ t.evicted = evicted
           /\ t.removed = removed
           /\ t.capacity = capacity
    /\ \A t \in Successors(Self) :
           /\ t.inserted >= inserted
           /\ t.evicted >= evicted
           /\ t.removed >= removed

\* clear() meets a cache with live entries, p > 0 and counters that have
\* moved.
C8_Witness ==
    /\ len(Self) > 0
    /\ p > 0 /\ inserted > 0 /\ evicted + removed > 0
    /\ clear(Self).p = p
    /\ clear(Self).inserted = inserted

\* C9 as stated: contains_key(k) is true iff k is in frequent_set or recent_set
\* and the call changes nothing, the recency order of the lists included.
C9_ContainsKeyChangesNothing ==
    \A key \in LookupKeys :
        LET r == contains_key(Self, key)
        IN  /\ r.ret <=> Live(Self, key)
            /\ r.state = Self

\* C9 amended: contains_key(k) is true iff k is in frequent_set or recent_set
\* (a key held only by a ghost list gives false); the call changes no list's
\* keys or values, neither ghost list, nor p, nor a counter, and keeps the
\* order of all other keys; a hit makes k the most recently used entry of its
\* live list and a miss changes nothing.
C9_ContainsKeyRefreshes ==
    \A key \in LookupKeys :
        LET r == contains_key(Self, key)
            t == r.state
        IN  /\ r.ret <=> Live(Self, key)
            /\ \A n \in ListNames :
                  /\ LruLen(t[n]) = LruLen(Self[n])
                  /\ {t[n][i] : i \in 1..Len(t[n])}
                       = {Self[n][i] : i \in 1..Len(Self[n])}
                  /\ LruWithout(t[n], key) = LruWithout(Self[n], key)
            /\ t.recent_evicted = recent_evicted
            /\ t.frequent_evicted = frequent_evicted
            /\ t.p = p /\ t.capacity = capacity
            /\ t.inserted = inserted /\ t.evicted = evicted
            /\ t.removed = removed
            /\ \A n \in {"recent_set", "frequent_set"} :
                  LruHas(Self[n], key) => t[n][Len(t[n])].k = key
            /\ ~Live(Self, key) => t = Self

\* contains_key on the least recently used of two recent entries changes which
\* key the next cold insert evicts; and a ghost key in the same state gives
\* false.
C9_Witness ==
    \E key, ghost, cold \in Keys, value \in Vals :
        /\ LruLen(recent_set) >= 2 /\ recent_set[1].k = key
        /\ len(Self) >= capacity
        /\ ListsHolding(Self, ghost) \in {{"recent_evicted"}, {"frequent_evicted"}}
        /\ ~contains_key(Self, ghost).ret
        /\ ListsHolding(Self, cold) = {}
        /\ contains_key(Self, key).ret
        /\ Live(insert(contains_key(Self, key).state, cold, value).state, key)
        /\ ~Live(insert(Self, cold, value).state, key)

\* C10: get_mut(k) moves a key of recent_set, value intact, into frequent_set
\* and is present; is present for a key of frequent_set; is empty for any
\* other key (ghost keys included) and then changes nothing; and never
\* changes p or len().
C10_GetMut ==
    \A key \in LookupKeys :
        LET r == get_mut(Self, key)
            t == r.state
        IN  /\ LruHas(recent_set, key) =>
                  /\ r.ret = Some(Stored(Self, key))
                  /\ ListsHolding(t, key) = {"frequent_set"}
                  /\ Stored(t, key) = Stored(Self, key)
            /\ LruHas(frequent_set, key) => r.ret = Some(Stored(Self, key))
            /\ ~Live(Self, key) => r.ret = None /\ t = Self
            /\ t.p = p
            /\ len(t) = len(Self)

\* C11: a traversal yields the entries of frequent_set from least to most
\* recently used, then those of recent_set in the same order, and nothing
\* else: as many items as len(), no ghost key and no key twice.
C11_Traversal ==
    LET items == into_iter(Self)
        n == frequent_len(Self)
    IN  /\ Len(items) = len(Self)
        /\ \A i \in 1..Len(items) :
               /\ i <= n => items[i] = frequent_set[i]
               /\ i > n => items[i] = recent_set[i - n]
               /\ ~LruHas(recent_evicted, items[i].k)
               /\ ~LruHas(frequent_evicted, items[i].k)
               /\ \A j \in 1..Len(items) : items[j].k = items[i].k => j = i

\* Both live lists hold an entry while a ghost list holds a key.
C11_Witness ==
    /\ frequent_len(Self) > 0
    /\ recent_len(Self) > 0
    /\ LruLen(recent_evicted) + LruLen(frequent_evicted) > 0
    /\ into_iter(Self)[1] = frequent_set[1]
    /\ into_iter(Self)[len(Self)] = recent_set[recent_len(Self)]

\* C12: at capacity 2, after insert(A), contains_key(A), insert(B),
\* contains_key(B), insert(C), contains_key(C), contains_key(B),
\* contains_key(A), insert(A), get_mut(A), get_mut(never-inserted key) the
\* traversal yields (A, value of A), then (B, value of B), then ends: A is the
\* only frequent entry and B, not C, the only recent one.
C12_TestArc ==
    TestDone =>
        /\ into_iter(Self) = << [k |-> test.A, v |-> test.vA],
                                [k |-> test.B, v |-> test.vB] >>
        /\ frequent_set = << [k |-> test.A, v |-> test.vA] >>
        /\ recent_set = << [k |-> test.B, v |-> test.vB] >>

\* The test has passed every assertion on the way and C sits in a ghost list.
C12_Witness ==
    /\ TestDone
    /\ capacity = TestCapacity
    /\ LruHas(recent_evicted, test.C)
    /\ ~LruHas(recent_set, test.C)

\* A value to insert where the claim does not depend on the value.
SomeVal == CHOOSE value \in Vals : TRUE

\* C13: immediately after an insert that took the cold-miss path (returned
\* false), recent_evicted holds at most capacity - p keys and
\* frequent_evicted at most p.
C13_GhostTrimming ==
    \A key \in Keys :
        LET call == insert(Self, key, SomeVal)
        IN  ~call.ret =>
                /\ LruLen(call.state.recent_evicted)
                       <= call.state.capacity - call.state.p
                /\ LruLen(call.state.frequent_evicted) <= call.state.p

\* C13, amended: a cold-miss insert drops from each ghost list that is over
\* its bound after the replace step (capacity - p for recent_evicted, p for
\* frequent_evicted) its least recently used key and no other, counting one
\* eviction for each; a list that was over its bound by more stays over it.
C13_TrimsOneEach ==
    \A key \in Keys :
        LET call == insert(Self, key, SomeVal)
            replaced == ReplaceIfFull(Self, FALSE)
            recent_over ==
                LruLen(replaced.recent_evicted) > capacity - p
            frequent_over == LruLen(replaced.frequent_evicted) > p
        IN  ~call.ret =>
                /\ call.state.recent_evicted =
                       IF recent_over THEN Tail(replaced.recent_evicted)
                       ELSE replaced.recent_evicted
                /\ call.state.frequent_evicted =
                       IF frequent_over THEN Tail(replaced.frequent_evicted)
                       ELSE replaced.frequent_evicted
                /\ call.state.evicted =
                       evicted + (IF recent_over THEN 1 ELSE 0)
                               + (IF frequent_over THEN 1 ELSE 0)

\* A cold miss trims frequent_evicted and leaves it over its bound p.
C13_Witness ==
    \E key \in Keys :
        LET call == insert(Self, key, SomeVal)
        IN  /\ ~call.ret
            /\ call.state.evicted = evicted + 1
            /\ LruLen(call.state.frequent_evicted) > call.state.p

\* C14: no call of insert can fail: it never divides by a ghost-list length
\* of 0 when computing delta and never takes the unsigned subtractions
\* p - delta and capacity - p below 0; the other public operations have
\* nothing that can fail.
C14_Totality ==
    \A key \in Keys : insert_faults(Self, key) = {}

\* A ghost hit at a boundary of the arithmetic: delta = p on a
\* frequent_evicted hit, or capacity - p = 0 on a recent_evicted hit.
C14_Witness ==
    \/ \E key \in Keys :
          /\ LruHas(frequent_evicted, key)
          /\ p = 1
          /\ insert(Self, key, SomeVal).state.p = 0
    \/ \E key \in Keys :
          /\ LruHas(recent_evicted, key)
          /\ p = capacity

\* The cache at the point where insert(key, _), key not live, tests whether
\* to call replace: p is already adapted and stays as it is from there on.
AtReplace(s, key) == [s EXCEPT !.p = insert(s, key, SomeVal).state.p]

\* C15: whenever insert invokes replace (a ghost hit or a cold miss that
\* finds recent_len() + frequent_len() >= capacity), replace removes exactly
\* one entry from a live list and adds its key to a ghost list, so the live
\* size is one less before the new key is admitted.
C15_ReplaceEvictsOne ==
    \A key \in Keys :
        LET before == AtReplace(Self, key)
            after == replace(before, LruHas(frequent_evicted, key))
        IN  (~Live(Self, key) /\ len(Self) >= capacity) =>
                /\ len(after) = len(before) - 1
                /\ \E victim \in Keys :
                       /\ Live(before, victim)
                       /\ ~Live(after, victim)
                       /\ \/ LruHas(after.recent_evicted, victim)
                          \/ LruHas(after.frequent_evicted, victim)

\* replace takes its victim from recent_set.
TakesRecent(s, frequent_evicted_contains_key) ==
    /\ recent_len(s) > 0
    /\ \/ recent_len(s) > s.p
       \/ recent_len(s) = s.p /\ frequent_evicted_contains_key

\* C16: replace, called by insert with the flag true only on a
\* frequent_evicted hit, moves the least recently used key of recent_set to
\* recent_evicted exactly when recent_len() > 0 and (recent_len() > p, or
\* recent_len() = p and the flag is true); in every other case it moves the
\* least recently used key of frequent_set to frequent_evicted.
C16_ReplaceVictim ==
    \A key \in Keys :
        LET flag == LruHas(frequent_evicted, key)
            before == AtReplace(Self, key)
            after == replace(before, flag)
        IN  (~Live(Self, key) /\ len(Self) >= capacity) =>
                IF TakesRecent(before, flag)
                THEN /\ after.recent_set = Tail(before.recent_set)
                     /\ LruHas(after.recent_evicted, before.recent_set[1].k)
                     /\ after.frequent_set = before.frequent_set
                     /\ after.frequent_evicted = before.frequent_evicted
                ELSE /\ before.frequent_set # <<>>
                     /\ after.frequent_set = Tail(before.frequent_set)
                     /\ LruHas(after.frequent_evicted,
                               before.frequent_set[1].k)
                     /\ after.recent_set = before.recent_set
                     /\ after.recent_evicted = before.recent_evicted

Max(a, b) == IF a >= b THEN a ELSE b

Min(a, b) == IF a <= b THEN a ELSE b

\* C17: with the ghost-list lengths read before the hit key is removed and
\* before replace runs, and integer division, a frequent_evicted hit sets p
\* to max(0, p - max(1, |recent_evicted| / |frequent_evicted|)) and a
\* recent_evicted hit sets p to
\* min(capacity, p + max(1, |frequent_evicted| / |recent_evicted|)).
C17_Adaptation ==
    \A key \in LruKeys(recent_evicted) \cup LruKeys(frequent_evicted) :
        LET after == insert(Self, key, SomeVal).state
            recent_evicted_len == LruLen(recent_evicted)
            frequent_evicted_len == LruLen(frequent_evicted)
        IN  /\ LruHas(frequent_evicted, key) =>
                  after.p = Max(0, p - Max(1, recent_evicted_len
                                               \div frequent_evicted_len))
            /\ LruHas(recent_evicted, key) =>
                  after.p = Min(capacity,
                                p + Max(1, frequent_evicted_len
                                            \div recent_evicted_len))

\* A recent_evicted hit whose quotient is above 1 and equal to
\* capacity - p: p rises by the quotient, to capacity.
C17_Witness ==
    \E key \in LruKeys(recent_evicted) :
        /\ capacity = AdaptCapacity
        /\ LruLen(frequent_evicted) \div LruLen(recent_evicted) > 1
        /\ LruLen(frequent_evicted) \div LruLen(recent_evicted) = capacity - p
        /\ insert(Self, key, SomeVal).state.p = capacity

\* C18: insert(k, v) on a live key ends with k in frequent_set holding v as
\* its most recently used entry and leaves len(), p, both ghost lists and
\* the three counters unchanged; no other key is evicted.
C18_InsertLiveKey ==
    \A key \in Keys, value \in Vals :
        LET after == insert(Self, key, value).state
        IN  Live(Self, key) =>
                /\ ListsHolding(after, key) = {"frequent_set"}
                /\ after.frequent_set[frequent_len(after)]
                       = [k |-> key, v |-> value]
                /\ len(after) = len(Self)
                /\ after.p = p
                /\ after.recent_evicted = recent_evicted
                /\ after.frequent_evicted = frequent_evicted
                /\ after.inserted = inserted
                /\ after.evicted = evicted
                /\ after.removed = removed
                /\ \A other \in Keys : Live(Self, other) => Live(after, other)

\* insert(key, _) makes replace put its victim into a ghost list that already
\* holds capacity keys, so that the list drops its least recently used key.
GhostListOverflows(s, key) ==
    LET flag == LruHas(s.frequent_evicted, key)
        before == AtReplace(s, key)
    IN  /\ ~Live(s, key)
        /\ len(s) >= s.capacity
        /\ IF TakesRecent(before, flag)
           THEN LruLen(s.recent_evicted) >= s.capacity
           ELSE /\ frequent_len(s) > 0
                /\ LruLen(s.frequent_evicted) >= s.capacity

C20_NoStaleValue ==
    /\ written \in Written
    /\ \A key \in LookupKeys :
           /\ peek_mut(Self, key).ret # None =>
                  /\ key \in Keys
                  /\ peek_mut(Self, key).ret = Some(written[key])
           /\ get_mut(Self, key).ret # None =>
                  /\ key \in Keys
                  /\ get_mut(Self, key).ret = Some(written[key])
           /\ contains_key(Self, key).ret =>
                  key \in Keys /\ written[key] \in Vals

\* A key that went through a ghost list was inserted again with another
\* value, which is the one now returned.
C20_Witness ==
    \E key \in Keys, value \in Vals :
        /\ written[key] = "gone"
        /\ LruHas(recent_evicted, key) \/ LruHas(frequent_evicted, key)
        /\ get_mut(insert(Self, key, value).state, key).ret = Some(value)

====
